---- MODULE Spec2Model ----
(***************************************************************************)
(* Model of the repository-based vote aggregation pipeline of              *)
(* bta_2024_vote_analysis: the in-memory repositories                      *)
(* (infrastructure/persistence.py), the services (core/services.py) and    *)
(* the order in which main (__init__.py) drives them.                      *)
(*                                                                         *)
(* Conventions.  A numpy matrix is a sequence of rows, each a sequence of  *)
(* cells; TLA+ sequences start at 1, so the code's cell [i][j] is the      *)
(* model's [i + 1][j + 1].  A float is an exact fraction <<n, d>> in       *)
(* lowest terms; d = 0 stands for the IEEE values numpy produces on a      *)
(* division by zero (<<0, 0>> is nan, <<1, 0>> is inf).  A Python dict is  *)
(* a function whose DOMAIN is its key set; where the code depends on the   *)
(* dict's insertion order (votes, awards) it is a sequence instead.        *)
(***************************************************************************)
EXTENDS Integers, Sequences, FiniteSets, TLC

\* ---------------------------------------------------------------- bounds
\* add_vote calls a client of the repositories makes (Spec).
MaxVotes == 2
\* Votes main imports from the loader (SpecMain).
MaxImported == 3
\* Longest works list of an award.
MaxWorks == 2
\* Longest locations table handed to update_school_locations.
MaxRows == 2
\* Calls of VoteAnalyzer.analyze on one analyzer.
MaxRuns == 2

\* ------------------------------------------------------------ input sets
SchoolNames == {"X", "Y"}
\* get_all_schools sorts by the transliteration of the name; the model
\* fixes that total order on its names.
SchoolOrder == <<"X", "Y">>
Locations == {"none"}
AwardNames == {"P", "Q"}
TitleOrder == <<"A", "B", "C">>
\* Vote ids: the ids a client may pass, and the order in which the model
\* hands out the fresh uuid4 ids of the votes the loader builds.
VoteIds == {"u1", "u2"}
FreshIds == <<"u1", "u2", "u3", "u4", "u5">>
\* The score matrices votes are drawn from: shapes (1,1), (1,2), (2,2).
VoteMatrices ==
    { << <<3>> >>,
      << <<3, 0>> >>, << <<0, 5>> >>,
      << <<3, 0>>, <<0, 5>> >> }

\* An award's works list: the first k titles.
WorksLists == { SubSeq(TitleOrder, 1, k) : k \in 1..MaxWorks }

\* Works lists as a seed file may hold them: any titles, repeats included.
SeedTitles == {"A", "B"}
SeedLists == UNION { [1..k -> SeedTitles] : k \in 1..MaxWorks }
\* Column indexes a client passes to add_work.
WorkIndexes == {0, 1}

\* Locations a school is registered with, and locations of the rows handed
\* to update_school_locations.
SeedLocations == {"none", "N"}
RowLocations == {"N", "S"}

VARIABLES
    votes,          \* InMemoryVoteRepository.votes, in insertion order
    school_votes,   \* InMemoryVoteRepository.school_votes
    schools,        \* InMemorySchoolRepository.schools
    awards,         \* InMemoryAwardRepository.awards, in insertion order
    works,          \* InMemoryWorkRepository.works: title -> award_indexes
    works_by_award, \* InMemoryWorkRepository.works_by_award
    results,        \* the AnalysisResults main holds once analyze returned
    report,         \* the document generate_report hands to the generators
    pc,             \* main's position: "load", "analyzed", "reported"
    lastError,      \* exception the last operation raised, or "none"
    returned,       \* what the last successful lookup returned: <<entity>>
    school_manager, \* managers.SchoolManager: [schools]
    award_manager,  \* managers.AwardManager: [awards, awards_by_index,
                    \*                         works, works_by_award]
    vote_manager,   \* managers.VoteManager: [votes, votes_count,
                    \*                        school_votes, vote_matrix_size]
    analyzer,       \* analyzers.VoteAnalyzer: <<>> until one is constructed,
                    \* then <<its fields>>
    msgpack_file,   \* the .msgpack file JsonReporter.generate_report wrote
    rev_json        \* the document msgpack_to_json wrote from that file

vars == <<votes, school_votes, schools, awards, works, works_by_award,
          results, report, pc, lastError, returned,
          school_manager, award_manager, vote_manager,
          analyzer, msgpack_file, rev_json>>

repos == <<votes, school_votes, schools, awards, works, works_by_award>>

\* The legacy managers (managers.py), objects of their own beside the
\* repositories.
managers == <<school_manager, award_manager, vote_manager>>

\* The files of the JSON report adapter (adapters/output/json.py).
files == <<msgpack_file, rev_json>>

\* --------------------------------------------------------------- helpers
Max(S) == CHOOSE x \in S : \A y \in S : y <= x

\* d with the key k set to v (Python: d[k] = v).
Put(d, k, v) == [x \in DOMAIN d \cup {k} |-> IF x = k THEN v ELSE d[x]]

EmptyDict == [x \in {} |-> 0]

\* ------------------------------------------------ InMemoryVoteRepository
Vote(id, school, matrix) == [id |-> id, school |-> school, matrix |-> matrix]

VoteInputs ==
    { Vote(id, s, m) : id \in VoteIds, s \in SchoolNames, m \in VoteMatrices }

\* Position of the key id in the votes dict, 0 when absent.
VoteIndex(vs, id) ==
    IF \E i \in 1..Len(vs) : vs[i].id = id
    THEN CHOOSE i \in 1..Len(vs) : vs[i].id = id
    ELSE 0

\* self.votes[str(vote.id)] = vote: a new key is appended, an existing key
\* keeps its position and takes the new value.
StoreVote(vs, v) ==
    IF VoteIndex(vs, v.id) = 0
    THEN Append(vs, v)
    ELSE [vs EXCEPT ![VoteIndex(vs, v.id)] = v]

\* school_votes[school_name].append(vote), creating the list when missing.
IndexVote(sv, v) ==
    Put(sv, v.school,
        Append(IF v.school \in DOMAIN sv THEN sv[v.school] ELSE <<>>, v))

get_vote_count_by_school(sv, s) ==
    IF s \in DOMAIN sv THEN Len(sv[s]) ELSE 0

get_votes_by_school(sv, s) ==
    IF s \in DOMAIN sv THEN sv[s] ELSE <<>>

get_all_votes(vs) == vs

RECURSIVE SumOver(_, _)
SumOver(S, f) ==
    IF S = {} THEN 0
    ELSE LET x == CHOOSE y \in S : TRUE IN f[x] + SumOver(S \ {x}, f)

\* Entries over all per-school lists: the number of add_vote calls so far.
IndexedCount(sv) == SumOver(DOMAIN sv, [s \in DOMAIN sv |-> Len(sv[s])])

\* VotingService.add_vote -> InMemoryVoteRepository.add_vote.  The
\* repository neither checks the id nor the shape: the call always returns.
AddVote(v) ==
    /\ pc = "load"
    /\ votes' = StoreVote(votes, v)
    /\ school_votes' = IndexVote(school_votes, v)
    /\ lastError' = "none"
    /\ UNCHANGED <<schools, awards, works, works_by_award, results, report, pc,
                   returned, managers, analyzer, files>>

\* ---------------------------------------------- InMemorySchoolRepository
\* Faulty variant of AddSchool: no test of the name, the school is stored
\* over a registered one.
AddSchool_Overwrite(name, loc) ==
    /\ pc = "load"
    /\ schools' = Put(schools, name, [name |-> name, location |-> loc])
    /\ lastError' = "none"
    /\ UNCHANGED <<votes, school_votes, awards, works, works_by_award,
                   results, report, pc, returned, managers, analyzer, files>>

AddSchool(name, loc) ==
    /\ pc = "load"
    /\ IF name \in DOMAIN schools
       THEN /\ lastError' = "ValueError: school exists"
            /\ UNCHANGED schools
       ELSE /\ schools' = Put(schools, name, [name |-> name, location |-> loc])
            /\ lastError' = "none"
    /\ UNCHANGED <<votes, school_votes, awards, works, works_by_award,
                   results, report, pc, returned, managers, analyzer, files>>

\* sorted(self.schools.values(), key=lazy_pinyin(name))
get_all_schools(sch) == SelectSeq(SchoolOrder, LAMBDA s : s \in DOMAIN sch)

\* ----------------------------------------------- InMemoryAwardRepository
Award(name, wl) == [name |-> name, works |-> wl]

AwardKeys(aw) == { aw[i].name : i \in 1..Len(aw) }

get_all_awards(aw) == aw

\* ------------------------------------------------ InMemoryWorkRepository
\* Faulty variant of add_work: self.works[work.title] = work for a known
\* title too, so the stored award_indexes are replaced instead of merged.
add_work_Replace(wr, title, ai) ==
    LET listed(a) == IF a \in DOMAIN wr.by_award THEN wr.by_award[a] ELSE <<>>
    IN [works |-> Put(wr.works, title, ai),
        by_award |->
            [a \in DOMAIN wr.by_award \cup DOMAIN ai |->
                IF a \in DOMAIN ai
                   /\ ~ \E k \in 1..Len(listed(a)) : listed(a)[k] = title
                THEN Append(listed(a), title)
                ELSE listed(a)]]

\* add_work(Work(title, ai)) on the pair (works, works_by_award): a known
\* title merges ai into the stored award_indexes (dict.update), then the
\* stored work is listed once under every award of its award_indexes.
add_work(wr, title, ai) ==
    LET stored == IF title \in DOMAIN wr.works
                  THEN [a \in DOMAIN wr.works[title] \cup DOMAIN ai |->
                           IF a \in DOMAIN ai THEN ai[a] ELSE wr.works[title][a]]
                  ELSE ai
        listed(a) == IF a \in DOMAIN wr.by_award THEN wr.by_award[a] ELSE <<>>
    IN [works |-> Put(wr.works, title, stored),
        by_award |->
            [a \in DOMAIN wr.by_award \cup DOMAIN stored |->
                IF a \in DOMAIN stored
                   /\ ~ \E k \in 1..Len(listed(a)) : listed(a)[k] = title
                THEN Append(listed(a), title)
                ELSE listed(a)]]

\* The titles of ts ordered by key, ascending and stable (Python sorted).
RECURSIVE SortedBy(_, _)
SortedBy(ts, key) ==
    IF ts = <<>> THEN <<>>
    ELSE LET least == CHOOSE k \in 1..Len(ts) :
                         /\ \A m \in 1..Len(ts) : key[ts[k]] <= key[ts[m]]
                         /\ \A m \in 1..(k - 1) : key[ts[m]] # key[ts[k]]
             rest == [m \in 1..(Len(ts) - 1) |->
                         IF m < least THEN ts[m] ELSE ts[m + 1]]
         IN <<ts[least]>> \o SortedBy(rest, key)

\* Faulty variant of get_works_by_award: sorted(..., reverse=True).
get_works_by_award_Descending(W, B, a) ==
    IF a \in DOMAIN B
    THEN SortedBy(B[a], [t \in DOMAIN W |->
                            IF a \in DOMAIN W[t] THEN 0 - W[t][a] ELSE 0])
    ELSE <<>>

\* sorted(works_by_award.get(award.name, []), key=award_indexes[award.name])
get_works_by_award(W, B, a) ==
    IF a \in DOMAIN B
    THEN SortedBy(B[a], [t \in DOMAIN W |->
                            IF a \in DOMAIN W[t] THEN W[t][a] ELSE 0])
    ELSE <<>>

\* main's loop over one award's works: add_work(Work(title, {name: i})) for
\* i = 0 .. len(works) - 1, starting from position i.
RECURSIVE SeedWorks(_, _, _, _)
SeedWorks(wr, name, wl, i) ==
    IF i >= Len(wl) THEN wr
    ELSE SeedWorks(add_work(wr, wl[i + 1], [a \in {name} |-> i]), name, wl, i + 1)

\* Faulty variant of LoadAward: add_award without the test of the name.
LoadAward_NoCheck(name, wl) ==
    /\ pc = "load"
    /\ LET wr == SeedWorks([works |-> works, by_award |-> works_by_award],
                           name, wl, 0)
       IN /\ awards' = Append(awards, Award(name, wl))
          /\ works' = wr.works
          /\ works_by_award' = wr.by_award
          /\ lastError' = "none"
    /\ UNCHANGED <<votes, school_votes, schools, results, report, pc,
                   returned, managers, analyzer, files>>

\* main's seed step for one award: award_repo.add_award, which raises on a
\* registered name before anything is stored, then the add_work loop.
LoadAward(name, wl) ==
    /\ pc = "load"
    /\ IF name \in AwardKeys(awards)
       THEN /\ lastError' = "ValueError: award exists"
            /\ UNCHANGED <<awards, works, works_by_award>>
       ELSE LET wr == SeedWorks([works |-> works, by_award |-> works_by_award],
                                name, wl, 0)
            IN /\ awards' = Append(awards, Award(name, wl))
               /\ works' = wr.works
               /\ works_by_award' = wr.by_award
               /\ lastError' = "none"
    /\ UNCHANGED <<votes, school_votes, schools, results, report, pc,
                   returned, managers, analyzer, files>>

\* ------------------------------------------------------ float arithmetic
RECURSIVE GCD(_, _)
GCD(a, b) == IF b = 0 THEN a ELSE GCD(b, a % b)

NaN == <<0, 0>>
Inf == <<1, 0>>
Zero == <<0, 1>>

\* n / d for integers n >= 0, d >= 0, as numpy divides: 0/0 is nan and
\* n/0 is inf (with a warning, not an exception).
Frac(n, d) ==
    IF d = 0 THEN (IF n = 0 THEN NaN ELSE Inf)
    ELSE <<n \div GCD(n, d), d \div GCD(n, d)>>

FAdd(x, y) ==
    IF x[2] = 0 THEN (IF y[2] = 0 /\ y # x THEN NaN ELSE x)
    ELSE IF y[2] = 0 THEN y
    ELSE Frac(x[1] * y[2] + y[1] * x[2], x[2] * y[2])

\* x / k for a count k >= 0.
FDiv(x, k) ==
    IF x[2] = 0 THEN x
    ELSE IF k = 0 THEN (IF x[1] = 0 THEN NaN ELSE Inf)
    ELSE Frac(x[1], x[2] * k)

\* -------------------------------------------------------------- matrices
Shape(m) == <<Len(m), Len(m[1])>>

Cells(size) == (1..size[1]) \X (1..size[2])

\* numpy adds m in place into an array of shape size when every dimension
\* of m is 1 or the array's; anything else raises ValueError.
Broadcastable(m, size) ==
    /\ Len(m) \in {1, size[1]}
    /\ Len(m[1]) \in {1, size[2]}

\* The value m contributes to cell (i, j) of the array it is added into.
Bcast(m, i, j) ==
    m[IF Len(m) = 1 THEN 1 ELSE i][IF Len(m[1]) = 1 THEN 1 ELSE j]

\* ------------------------------------------------------- AnalysisService
\* _get_matrix_size: (len(awards), max(len(award.works))).  Only called on
\* a non-empty awards list here; max() of no award raises (see analyze).
get_matrix_size(aw) ==
    <<Len(aw), Max({ Len(aw[i].works) : i \in 1..Len(aw) })>>

\* The accumulated sum of cell (i, j) over the votes vs, in order.
RECURSIVE CellSum(_, _, _)
CellSum(vs, i, j) ==
    IF vs = <<>> THEN 0
    ELSE Bcast(Head(vs).matrix, i, j) + CellSum(Tail(vs), i, j)

\* The accumulated np.where(matrix != 0, 1, 0) of cell (i, j).
RECURSIVE CellNonzero(_, _, _)
CellNonzero(vs, i, j) ==
    IF vs = <<>> THEN 0
    ELSE (IF Bcast(Head(vs).matrix, i, j) # 0 THEN 1 ELSE 0)
         + CellNonzero(Tail(vs), i, j)

\* The exception the accumulation loop raises, "none" when it completes:
\* per vote, total_sum += matrix fails first on a shape numpy cannot
\* broadcast, then school_sum[vote.school.name] on an unregistered school.
RECURSIVE LoopError(_, _, _)
LoopError(vs, sch, size) ==
    IF vs = <<>> THEN "none"
    ELSE IF ~ Broadcastable(Head(vs).matrix, size) THEN "ValueError: broadcast"
    ELSE IF Head(vs).school \notin DOMAIN sch THEN "KeyError: school"
    ELSE LoopError(Tail(vs), sch, size)

VotesOf(vs, s) == SelectSeq(vs, LAMBDA v : v.school = s)

total_sum(vs, size) ==
    [i \in 1..size[1] |-> [j \in 1..size[2] |-> CellSum(vs, i, j)]]

total_nonzero_count(vs, size) ==
    [i \in 1..size[1] |-> [j \in 1..size[2] |-> CellNonzero(vs, i, j)]]

\* Faulty variant of school_sum: a vote is added to the sum of every
\* registered school instead of its own.
school_sum_AllSchools(vs, sch, size) ==
    [s \in DOMAIN sch |-> total_sum(vs, size)]

\* school_sum after the accumulation loop: zeros for every registered
\* school, plus the matrix of each stored vote under its school's name.
school_sum(vs, sch, size) ==
    [s \in DOMAIN sch |-> total_sum(VotesOf(vs, s), size)]

\* school_nonzero_count after the accumulation loop, the same way.
school_nonzero_count(vs, sch, size) ==
    [s \in DOMAIN sch |-> total_nonzero_count(VotesOf(vs, s), size)]

\* sum / count, element-wise scalar divide.
Average(vs, size, count) ==
    [i \in 1..size[1] |-> [j \in 1..size[2] |->
        Frac(CellSum(vs, i, j), count)]]

\* Faulty variant of NonzeroAverage: divides by the number of votes.
NonzeroAverage_Plain(vs, size) == Average(vs, size, Len(vs))

\* np.divide(sum, nonzero_count, out=zeros, where=nonzero_count > 0)
NonzeroAverage(vs, size) ==
    [i \in 1..size[1] |-> [j \in 1..size[2] |->
        IF CellNonzero(vs, i, j) > 0
        THEN Frac(CellSum(vs, i, j), CellNonzero(vs, i, j))
        ELSE Zero]]

\* Faulty variant of IncludedSchools: no vote_count > 0 filter.
IncludedSchools_NoFilter(sv, sch) == DOMAIN sch

\* Schools that get a per-school average: vote_count > 0.
IncludedSchools(sv, sch) ==
    { s \in DOMAIN sch : get_vote_count_by_school(sv, s) > 0 }

RECURSIVE FSum(_, _, _, _)
FSum(S, ms, i, j) ==
    IF S = {} THEN Zero
    ELSE LET s == CHOOSE x \in S : TRUE
         IN FAdd(ms[s][i][j], FSum(S \ {s}, ms, i, j))

\* Faulty variant of MeanOf: divides by the number of registered schools.
MeanOf_AllSchools(ms, size) ==
    [i \in 1..size[1] |-> [j \in 1..size[2] |->
        FDiv(FSum(DOMAIN ms, ms, i, j), Cardinality(DOMAIN schools))]]

\* np.mean(np.stack(list(ms.values())), axis=0)
MeanOf(ms, size) ==
    [i \in 1..size[1] |-> [j \in 1..size[2] |->
        FDiv(FSum(DOMAIN ms, ms, i, j), Cardinality(DOMAIN ms))]]

\* AnalysisService.analyze on the repositories' contents: the exception it
\* raises ("none" when it returns) and the AnalysisResults it returns.
analyze(vs, sv, sch, aw) ==
    IF aw = <<>> THEN [error |-> "ValueError: max of empty"]
    ELSE
    LET size == get_matrix_size(aw)
        all == get_all_votes(vs)
        keys == IncludedSchools(sv, sch)
        school_avg ==
            [s \in keys |->
                Average(VotesOf(all, s), size, get_vote_count_by_school(sv, s))]
        school_nonzero_avg ==
            [s \in keys |-> NonzeroAverage(VotesOf(all, s), size)]
    IN IF LoopError(all, sch, size) # "none"
       THEN [error |-> LoopError(all, sch, size)]
       ELSE IF keys = {} THEN [error |-> "ValueError: stack of empty"]
       ELSE [error |-> "none",
             total_avg |-> Average(all, size, Len(all)),
             total_nonzero_avg |-> NonzeroAverage(all, size),
             school_avg |-> school_avg,
             school_nonzero_avg |-> school_nonzero_avg,
             total_school_avg |-> MeanOf(school_avg, size),
             total_school_nonzero_avg |-> MeanOf(school_nonzero_avg, size)]

\* Faulty variant of Analyze: total_sum starts as the first vote's matrix
\* instead of np.zeros, so += accumulates into the stored vote.
Analyze_InPlace ==
    /\ pc = "load"
    /\ LET r == analyze(votes, school_votes, schools, awards)
       IN IF r.error = "none"
          THEN /\ results' = [f \in DOMAIN r \ {"error"} |-> r[f]]
               /\ pc' = "analyzed"
               /\ lastError' = "none"
               /\ votes' = [votes EXCEPT
                               ![1].matrix = total_sum(votes, get_matrix_size(awards))]
          ELSE /\ lastError' = r.error
               /\ UNCHANGED <<results, pc, votes>>
    /\ UNCHANGED <<school_votes, schools, awards, works, works_by_award,
                   report, returned, managers, analyzer, files>>

\* main: results = analysis_service.analyze(), run once after the import.
Analyze ==
    /\ pc = "load"
    /\ LET r == analyze(votes, school_votes, schools, awards)
       IN IF r.error = "none"
          THEN /\ results' = [f \in DOMAIN r \ {"error"} |-> r[f]]
               /\ pc' = "analyzed"
               /\ lastError' = "none"
          ELSE /\ lastError' = r.error
               /\ UNCHANGED <<results, pc>>
    /\ UNCHANGED <<repos, report, returned, managers, analyzer, files>>

\* The report_data document of generate_report for the results res.
\* The code's cell [i][award_indexes[name]] is [i][idx + 1] here, i being
\* the award's 1-based position and idx the stored 0-based column.
report_data(res, vs, sv, sch, aw, W, B) ==
    LET listed == SelectSeq(get_all_schools(sch),
                            LAMBDA s : s \in DOMAIN res.school_avg)
        work_entry(i, t) ==
            LET c == W[t][aw[i].name] + 1
            IN [title |-> t,
                total_avg |->
                    [avg |-> res.total_avg[i][c],
                     nonzero_avg |-> res.total_nonzero_avg[i][c]],
                total_school_avg |->
                    [avg |-> res.total_school_avg[i][c],
                     nonzero_avg |-> res.total_school_nonzero_avg[i][c]],
                school_avg |->
                    [k \in 1..Len(listed) |->
                        [school_name |-> listed[k],
                         avg |-> res.school_avg[listed[k]][i][c],
                         nonzero_avg |-> res.school_nonzero_avg[listed[k]][i][c]]]]
        award_entry(i) ==
            LET ws == get_works_by_award(W, B, aw[i].name)
            IN [name |-> aw[i].name,
                works |-> [k \in 1..Len(ws) |-> work_entry(i, ws[k])]]
    IN [stats |->
            [total_school_count |-> Len(listed),
             total_vote_count |-> Len(get_all_votes(vs))],
        schools |->
            [k \in 1..Len(listed) |->
                [name |-> listed[k],
                 location |-> sch[listed[k]].location,
                 vote_count |-> get_vote_count_by_school(sv, listed[k])]],
        awards |-> [i \in 1..Len(aw) |-> award_entry(i)]]

\* A work's column lies outside the result matrices: the read raises.
ReportIndexError(res, aw, W, B) ==
    \E i \in 1..Len(aw) :
        \/ i > Len(res.total_avg)
        \/ \E k \in 1..Len(get_works_by_award(W, B, aw[i].name)) :
              W[get_works_by_award(W, B, aw[i].name)[k]][aw[i].name] + 1
                  > Len(res.total_avg[i])

\* ------------------------------------------- JsonReporter (output/json.py)
RECURSIVE Pow2(_)
Pow2(e) == IF e = 0 THEN 1 ELSE 2 * Pow2(e - 1)

\* The integer nearest to n / d for n >= 0, d > 0, a tie going to the even
\* neighbour.
RoundHalfEven(n, d) ==
    IF 2 * (n % d) < d THEN n \div d
    ELSE IF 2 * (n % d) > d THEN (n \div d) + 1
    ELSE IF (n \div d) % 2 = 0 THEN n \div d
    ELSE (n \div d) + 1

\* _round_float: round(value, 4); nan and inf stay.
round_float(x) ==
    IF x[2] = 0 THEN x ELSE Frac(RoundHalfEven(x[1] * 10000, x[2]), 10000)

\* The binary expansion of a quotient, bit by bit, up to a 24-bit
\* significand: <<m, e, r>> with m = floor(q * 2^e) and r the remainder of
\* the division by d, starting from the integer part m and remainder r.
RECURSIVE Significand(_, _, _, _)
Significand(m, r, d, e) ==
    IF m >= 8388608 THEN <<m, e, r>>
    ELSE Significand(2 * m + ((2 * r) \div d), (2 * r) % d, d, e + 1)

\* msgpack.pack(..., use_single_float=True) of a float x >= 0: the float32
\* nearest to x (ties to even), written <<m, 2^e, 32>> for m / 2^e; zero,
\* nan and inf are kept as they are.
single_float(x) ==
    IF x[2] = 0 \/ x[1] = 0 THEN <<x[1], x[2], 32>>
    ELSE LET s == Significand(x[1] \div x[2], x[1] % x[2], x[2], 0)
         IN <<IF 2 * s[3] < x[2] THEN s[1]
              ELSE IF 2 * s[3] > x[2] THEN s[1] + 1
              ELSE IF s[1] % 2 = 0 THEN s[1]
              ELSE s[1] + 1,
              Pow2(s[2]), 32>>

\* msgpack.unpack of a packed float: the Python float of the same value.
unpack_float(b) ==
    IF b[2] = 0 THEN <<b[1], 0>> ELSE Frac(b[1], b[2])

\* One float of the document through the step named by mode.
Converted(x, mode) ==
    IF mode = "round" THEN round_float(x)
    ELSE IF mode = "pack" THEN single_float(x)
    ELSE unpack_float(x)

\* The report document with every float taken through the step mode; keys,
\* lists, strings, None and integers are left as they are by every step.
ConvertedDocument(doc, mode) ==
    LET pair(p) == [avg |-> Converted(p.avg, mode),
                    nonzero_avg |-> Converted(p.nonzero_avg, mode)]
        entry(w) ==
            [title |-> w.title,
             total_avg |-> pair(w.total_avg),
             total_school_avg |-> pair(w.total_school_avg),
             school_avg |->
                 [m \in 1..Len(w.school_avg) |->
                     [school_name |-> w.school_avg[m].school_name,
                      avg |-> Converted(w.school_avg[m].avg, mode),
                      nonzero_avg |-> Converted(w.school_avg[m].nonzero_avg, mode)]]]
    IN [stats |-> doc.stats,
        schools |-> doc.schools,
        awards |->
            [i \in 1..Len(doc.awards) |->
                [name |-> doc.awards[i].name,
                 works |-> [k \in 1..Len(doc.awards[i].works) |->
                               entry(doc.awards[i].works[k])]]]]

\* _optimize_for_msgpack
optimize_for_msgpack(doc) == ConvertedDocument(doc, "round")

\* msgpack.pack(optimized_data, f, use_single_float=True): the file, as the
\* tree it encodes.
msgpack_pack(doc) == ConvertedDocument(doc, "pack")

\* msgpack.unpack(f)
msgpack_unpack(file) == ConvertedDocument(file, "unpack")

\* main: analysis_service.generate_report(results), which hands the document
\* to its generators; JsonReporter writes it to the .msgpack file.
GenerateReport ==
    /\ pc = "analyzed"
    /\ IF ReportIndexError(results, awards, works, works_by_award)
       THEN /\ lastError' = "IndexError"
            /\ UNCHANGED <<report, pc, msgpack_file>>
       ELSE /\ report' = report_data(results, votes, school_votes, schools,
                                     awards, works, works_by_award)
            /\ msgpack_file' = msgpack_pack(optimize_for_msgpack(report'))
            /\ pc' = "reported"
            /\ lastError' = "none"
    /\ UNCHANGED <<repos, results, returned, managers, analyzer, rev_json>>

\* JsonReporter.msgpack_to_json, called by main once the report is written
\* (the file exists then): the file is decoded and dumped as JSON.
MsgpackToJson ==
    /\ pc = "reported"
    /\ rev_json' = msgpack_unpack(msgpack_file)
    /\ pc' = "converted"
    /\ lastError' = "none"
    /\ UNCHANGED <<repos, results, report, returned, managers, analyzer,
                   msgpack_file>>

\* ------------------------------------ repository lookups and maintenance
others == <<results, report, pc, managers, analyzer, files>>

\* Faulty variant of get_school_by_name: an unknown name yields no error.
get_school_by_name_Silent(sch, name) ==
    IF name \in DOMAIN sch
    THEN [error |-> "none", value |-> <<sch[name]>>]
    ELSE [error |-> "none", value |-> <<>>]

\* get_school_by_name: self.schools[name]; the KeyError is logged and
\* re-raised, and then nothing is returned.
get_school_by_name(sch, name) ==
    IF name \in DOMAIN sch
    THEN [error |-> "none", value |-> <<sch[name]>>]
    ELSE [error |-> "KeyError: school"]

GetSchoolByName(name) ==
    /\ pc = "load"
    /\ LET r == get_school_by_name(schools, name)
       IN /\ lastError' = r.error
          /\ returned' = IF r.error = "none" THEN r.value ELSE returned
    /\ UNCHANGED <<repos, others>>

\* get_award_by_name: self.awards[name], the same way.
get_award_by_name(aw, name) ==
    IF name \in AwardKeys(aw)
    THEN [error |-> "none",
          value |-> <<aw[CHOOSE i \in 1..Len(aw) : aw[i].name = name]>>]
    ELSE [error |-> "KeyError: award"]

GetAwardByName(name) ==
    /\ pc = "load"
    /\ LET r == get_award_by_name(awards, name)
       IN /\ lastError' = r.error
          /\ returned' = IF r.error = "none" THEN r.value ELSE returned
    /\ UNCHANGED <<repos, others>>

\* A row of the locations data: {"name": ..., "location": ...}.
LocationRow(name, loc) == [name |-> name, location |-> loc]

\* Faulty variant of update_school_locations: the first row naming a
\* school decides its location, later rows for it are ignored.
RECURSIVE update_school_locations_FirstWins(_, _)
update_school_locations_FirstWins(sch, rows) ==
    IF rows = <<>> THEN sch
    ELSE LET last == rows[Len(rows)]
             before == update_school_locations_FirstWins(
                           sch, SubSeq(rows, 1, Len(rows) - 1))
         IN IF /\ last.name \in DOMAIN sch
               /\ ~ \E k \in 1..(Len(rows) - 1) : rows[k].name = last.name
            THEN [before EXCEPT ![last.name].location = last.location]
            ELSE before

\* update_school_locations: row by row, a registered name gets the row's
\* location, any other row is skipped with a warning.
RECURSIVE update_school_locations(_, _)
update_school_locations(sch, rows) ==
    IF rows = <<>> THEN sch
    ELSE update_school_locations(
             IF Head(rows).name \in DOMAIN sch
             THEN [sch EXCEPT ![Head(rows).name].location = Head(rows).location]
             ELSE sch,
             Tail(rows))

UpdateSchoolLocations(rows) ==
    /\ pc = "load"
    /\ schools' = update_school_locations(schools, rows)
    /\ lastError' = "none"
    /\ UNCHANGED <<votes, school_votes, awards, works, works_by_award,
                   returned, others>>

\* work_repo.add_work(Work(title, {award: idx})), called on its own.
AddWork(title, award, idx) ==
    /\ pc = "load"
    /\ LET wr == add_work([works |-> works, by_award |-> works_by_award],
                          title, [a \in {award} |-> idx])
       IN /\ works' = wr.works
          /\ works_by_award' = wr.by_award
    /\ lastError' = "none"
    /\ UNCHANGED <<votes, school_votes, schools, awards, returned, others>>

\* ----------------------------------------------------- VoteImportService
\* A row of the loader's sheet, as far as the vote built from it goes.
Row(school, matrix) == [school |-> school, matrix |-> matrix]

\* vote_repo.add_vote for each vote of q in turn, on (votes, school_votes).
RECURSIVE AddAll(_, _, _)
AddAll(vs, sv, q) ==
    IF q = <<>> THEN [votes |-> vs, school_votes |-> sv]
    ELSE AddAll(StoreVote(vs, Head(q)), IndexVote(sv, Head(q)), Tail(q))

\* ExcelVoteLoader.load_votes: one Vote per row, with the School that
\* get_school_by_name returns and a fresh uuid4 id (the ids after the first
\* taken ones); the first exception is re-raised before the list is returned.
load_votes(sch, rows, taken) ==
    IF \E k \in 1..Len(rows) : get_school_by_name(sch, rows[k].school).error # "none"
    THEN [error |-> "KeyError: school", votes |-> <<>>]
    ELSE [error |-> "none",
          votes |-> [k \in 1..Len(rows) |->
                        Vote(FreshIds[taken + k], rows[k].school, rows[k].matrix)]]

\* The rows ahead of the first one whose school is not registered.
RECURSIVE Loadable(_, _)
Loadable(sch, rows) ==
    IF rows = <<>> \/ Head(rows).school \notin DOMAIN sch THEN <<>>
    ELSE <<Head(rows)>> \o Loadable(sch, Tail(rows))

\* Faulty variant of import_votes_from_loader: the votes are added as the
\* loader yields them, so those ahead of a failing row stay stored.
import_votes_from_loader_Lazy(vs, sv, sch, rows) ==
    LET good == Loadable(sch, rows)
        added == AddAll(vs, sv, load_votes(sch, good, Len(vs)).votes)
    IN [error |-> load_votes(sch, rows, Len(vs)).error,
        votes |-> added.votes, school_votes |-> added.school_votes]

\* import_votes_from_loader: load_votes() builds the whole list first, then
\* every vote goes through VotingService.add_vote.
import_votes_from_loader(vs, sv, sch, rows) ==
    LET loaded == load_votes(sch, rows, Len(vs))
        added == AddAll(vs, sv, loaded.votes)
    IN IF loaded.error # "none"
       THEN [error |-> loaded.error, votes |-> vs, school_votes |-> sv]
       ELSE [error |-> "none",
             votes |-> added.votes, school_votes |-> added.school_votes]

ImportVotesFromLoader(rows) ==
    /\ pc = "load"
    /\ LET r == import_votes_from_loader(votes, school_votes, schools, rows)
       IN /\ votes' = r.votes
          /\ school_votes' = r.school_votes
          /\ lastError' = r.error
    /\ UNCHANGED <<schools, awards, works, works_by_award, returned, others>>

\* --------------------------------------------- legacy managers (managers.py)
\* SchoolManager.add_school
SchoolManagerAddSchool(name, loc) ==
    /\ IF name \in DOMAIN school_manager.schools
       THEN /\ lastError' = "ValueError: School already exists"
            /\ UNCHANGED school_manager
       ELSE /\ school_manager' =
                   [schools |-> Put(school_manager.schools, name,
                                    [name |-> name, location |-> loc])]
            /\ lastError' = "none"
    /\ UNCHANGED <<repos, results, report, pc, returned,
                   award_manager, vote_manager, analyzer, files>>

\* SchoolManager.update_school_locations_from_json: the loop of
\* update_school_locations, without the warning.
SchoolManagerUpdateLocations(rows) ==
    /\ school_manager' =
           [schools |-> update_school_locations(school_manager.schools, rows)]
    /\ lastError' = "none"
    /\ UNCHANGED <<repos, results, report, pc, returned,
                   award_manager, vote_manager, analyzer, files>>

\* AwardManager.add_award's loop over works from position i: a known title
\* gets award_indexes[award] = i, a new one is stored, and in both cases the
\* work is appended to works_by_award[award].
RECURSIVE ManagerSeedWorks(_, _, _, _)
ManagerSeedWorks(am, award, wl, i) ==
    IF i >= Len(wl) THEN am
    ELSE LET work == wl[i + 1]
             listed == IF award \in DOMAIN am.works_by_award
                       THEN am.works_by_award[award] ELSE <<>>
         IN ManagerSeedWorks(
                [am EXCEPT
                    !.works =
                        Put(am.works, work,
                            IF work \in DOMAIN am.works
                            THEN Put(am.works[work], award, i)
                            ELSE [a \in {award} |-> i]),
                    !.works_by_award =
                        Put(am.works_by_award, award, Append(listed, work))],
                award, wl, i + 1)

\* AwardManager.add_award(award, works)
AwardManagerAddAward(award, wl) ==
    /\ IF \E k \in 1..Len(award_manager.awards) : award_manager.awards[k] = award
       THEN /\ lastError' = "ValueError: Award already exists"
            /\ UNCHANGED award_manager
       ELSE /\ award_manager' =
                   ManagerSeedWorks(
                       [award_manager EXCEPT
                           !.awards = Append(@, award),
                           !.awards_by_index =
                               Put(@, Cardinality(DOMAIN @), award)],
                       award, wl, 0)
            /\ lastError' = "none"
    /\ UNCHANGED <<repos, results, report, pc, returned,
                   school_manager, vote_manager, analyzer, files>>

\* Faulty variant of vote_matrix_size: max(..., default=0), no error on an
\* empty award set.
vote_matrix_size_Default(vm, am) ==
    IF vm.vote_matrix_size # <<>>
    THEN [error |-> "none", size |-> vm.vote_matrix_size]
    ELSE [error |-> "none",
          size |-> <<Len(am.awards),
                     Max({0} \cup { Len(am.works_by_award[am.awards[k]]) :
                                       k \in 1..Len(am.awards) })>>]

\* VoteManager.vote_matrix_size: the cached shape, computed on first use as
\* (len(awards), max(len(works_by_award[award.name]))); max() of no award
\* raises ValueError and nothing is cached.
vote_matrix_size(vm, am) ==
    IF vm.vote_matrix_size # <<>>
    THEN [error |-> "none", size |-> vm.vote_matrix_size]
    ELSE IF am.awards = <<>>
    THEN [error |-> "ValueError: max of empty (VoteManager)"]
    ELSE [error |-> "none",
          size |-> <<Len(am.awards),
                     Max({ Len(am.works_by_award[am.awards[k]]) :
                              k \in 1..Len(am.awards) })>>]

\* Faulty variant of VoteManagerAddVote: votes_count is incremented ahead of
\* the shape check, so a vote rejected for its shape is still counted.
VoteManagerAddVote_CountFirst(v) ==
    /\ IF \E k \in 1..Len(vote_manager.votes) : vote_manager.votes[k].id = v.id
       THEN /\ lastError' = "ValueError: Vote already exists"
            /\ UNCHANGED vote_manager
       ELSE LET s == vote_matrix_size(vote_manager, award_manager)
            IN IF s.error # "none"
               THEN /\ lastError' = s.error
                    /\ UNCHANGED vote_manager
               ELSE IF Shape(v.matrix) # s.size
               THEN /\ lastError' = "ValueError: Vote matrix size is invalid"
                    /\ vote_manager' =
                           [vote_manager EXCEPT !.vote_matrix_size = s.size,
                                                !.votes_count = @ + 1]
               ELSE /\ vote_manager' =
                           [votes |-> Append(vote_manager.votes, v),
                            votes_count |-> vote_manager.votes_count + 1,
                            school_votes |->
                                Put(vote_manager.school_votes, v.school,
                                    Append(IF v.school \in DOMAIN vote_manager.school_votes
                                           THEN vote_manager.school_votes[v.school]
                                           ELSE <<>>,
                                           v.id)),
                            vote_matrix_size |-> s.size]
                    /\ lastError' = "none"
    /\ UNCHANGED <<repos, results, report, pc, returned,
                   school_manager, award_manager, analyzer, files>>

\* VoteManager.add_vote
VoteManagerAddVote(v) ==
    /\ IF \E k \in 1..Len(vote_manager.votes) : vote_manager.votes[k].id = v.id
       THEN /\ lastError' = "ValueError: Vote already exists"
            /\ UNCHANGED vote_manager
       ELSE LET s == vote_matrix_size(vote_manager, award_manager)
            IN IF s.error # "none"
               THEN /\ lastError' = s.error
                    /\ UNCHANGED vote_manager
               ELSE IF Shape(v.matrix) # s.size
               THEN /\ lastError' = "ValueError: Vote matrix size is invalid"
                    /\ vote_manager' =
                           [vote_manager EXCEPT !.vote_matrix_size = s.size]
               ELSE /\ vote_manager' =
                           [votes |-> Append(vote_manager.votes, v),
                            votes_count |-> vote_manager.votes_count + 1,
                            school_votes |->
                                Put(vote_manager.school_votes, v.school,
                                    Append(IF v.school \in DOMAIN vote_manager.school_votes
                                           THEN vote_manager.school_votes[v.school]
                                           ELSE <<>>,
                                           v.id)),
                            vote_matrix_size |-> s.size]
                    /\ lastError' = "none"
    /\ UNCHANGED <<repos, results, report, pc, returned,
                   school_manager, award_manager, analyzer, files>>

\* ------------------------------------------ VoteAnalyzer (analyzers.py)
\* VoteManager.get_votes_by_school: the stored votes of the ids listed for s.
manager_votes_by_school(vm, s) ==
    IF s \in DOMAIN vm.school_votes
    THEN [k \in 1..Len(vm.school_votes[s]) |->
             vm.votes[CHOOSE n \in 1..Len(vm.votes) :
                         vm.votes[n].id = vm.school_votes[s][k]]]
    ELSE <<>>

\* VoteManager.get_vote_count_by_school
manager_vote_count_by_school(vm, s) ==
    IF s \in DOMAIN vm.school_votes THEN Len(vm.school_votes[s]) ELSE 0

\* np.zeros(size), as a matrix of counts and as a matrix of floats.
ZeroCounts(size) == [i \in 1..size[1] |-> [j \in 1..size[2] |-> 0]]

ZeroFloats(size) == [i \in 1..size[1] |-> [j \in 1..size[2] |-> Zero]]

\* VoteAnalyzer.__init__: every result field is a zero matrix of the
\* VoteManager's shape or an empty dict; runs counts the analyze calls made.
NewAnalyzer(size) ==
    [matrix_size |-> size,
     total_sum |-> ZeroCounts(size),
     total_nonzero_count |-> ZeroCounts(size),
     total_avg |-> ZeroFloats(size),
     total_nonzero_avg |-> ZeroFloats(size),
     school_sum |-> EmptyDict,
     school_nonzero_count |-> EmptyDict,
     school_avg |-> EmptyDict,
     school_nonzero_avg |-> EmptyDict,
     total_school_avg_sum |-> ZeroFloats(size),
     total_school_nonzero_avg_sum |-> ZeroFloats(size),
     total_school_avg |-> ZeroFloats(size),
     total_school_nonzero_avg |-> ZeroFloats(size),
     runs |-> 0]

\* d with the entries of e written over it (d[k] = e[k] for every key of e).
Merged(d, e) ==
    [k \in DOMAIN d \cup DOMAIN e |-> IF k \in DOMAIN e THEN e[k] ELSE d[k]]

\* VoteAnalyzer.analyze on the analyzer a: _calculate_school_statistics
\* resets the per-school sums and adds every listed vote of every registered
\* school to them and to the running totals of a; _calculate_total_statistics
\* divides by len(vote_manager); _calculate_school_averages divides every
\* registered school's sum by its vote count, adds the averages to the
\* running sums of a and divides those by len(school_manager).  A division
\* by zero yields nan, never an exception.
VoteAnalyzer_analyze(a, sm, vm) ==
    LET size == a.matrix_size
        regs == DOMAIN sm.schools
        ssum == [s \in regs |-> total_sum(manager_votes_by_school(vm, s), size)]
        snz == [s \in regs |->
                   total_nonzero_count(manager_votes_by_school(vm, s), size)]
        tsum == [i \in 1..size[1] |-> [j \in 1..size[2] |->
                    a.total_sum[i][j]
                        + SumOver(regs, [s \in regs |-> ssum[s][i][j]])]]
        tnz == [i \in 1..size[1] |-> [j \in 1..size[2] |->
                   a.total_nonzero_count[i][j]
                       + SumOver(regs, [s \in regs |-> snz[s][i][j]])]]
        savg == [s \in regs |->
                    [i \in 1..size[1] |-> [j \in 1..size[2] |->
                        Frac(ssum[s][i][j], manager_vote_count_by_school(vm, s))]]]
        snzavg == [s \in regs |->
                      [i \in 1..size[1] |-> [j \in 1..size[2] |->
                          IF snz[s][i][j] > 0
                          THEN Frac(ssum[s][i][j], snz[s][i][j])
                          ELSE Zero]]]
        avg_sum == [i \in 1..size[1] |-> [j \in 1..size[2] |->
                       FAdd(a.total_school_avg_sum[i][j], FSum(regs, savg, i, j))]]
        nzavg_sum == [i \in 1..size[1] |-> [j \in 1..size[2] |->
                         FAdd(a.total_school_nonzero_avg_sum[i][j],
                              FSum(regs, snzavg, i, j))]]
    IN [matrix_size |-> size,
        total_sum |-> tsum,
        total_nonzero_count |-> tnz,
        total_avg |-> [i \in 1..size[1] |-> [j \in 1..size[2] |->
                          Frac(tsum[i][j], Len(vm.votes))]],
        total_nonzero_avg |-> [i \in 1..size[1] |-> [j \in 1..size[2] |->
                                  IF tnz[i][j] > 0
                                  THEN Frac(tsum[i][j], tnz[i][j])
                                  ELSE Zero]],
        school_sum |-> Merged(a.school_sum, ssum),
        school_nonzero_count |-> Merged(a.school_nonzero_count, snz),
        school_avg |-> Merged(a.school_avg, savg),
        school_nonzero_avg |-> Merged(a.school_nonzero_avg, snzavg),
        total_school_avg_sum |-> avg_sum,
        total_school_nonzero_avg_sum |-> nzavg_sum,
        total_school_avg |-> [i \in 1..size[1] |-> [j \in 1..size[2] |->
                                 FDiv(avg_sum[i][j], Cardinality(regs))]],
        total_school_nonzero_avg |-> [i \in 1..size[1] |-> [j \in 1..size[2] |->
                                         FDiv(nzavg_sum[i][j], Cardinality(regs))]],
        runs |-> a.runs + 1]

\* VoteAnalyzer(vote_manager): the constructor reads vote_matrix_size, which
\* computes and caches the shape or raises when no award is registered.
NewVoteAnalyzer ==
    /\ analyzer = <<>>
    /\ LET s == vote_matrix_size(vote_manager, award_manager)
       IN IF s.error # "none"
          THEN /\ lastError' = s.error
               /\ UNCHANGED <<vote_manager, analyzer>>
          ELSE /\ vote_manager' = [vote_manager EXCEPT !.vote_matrix_size = s.size]
               /\ analyzer' = <<NewAnalyzer(s.size)>>
               /\ lastError' = "none"
    /\ UNCHANGED <<repos, results, report, pc, returned,
                   school_manager, award_manager, files>>

\* analyzer.analyze()
VoteAnalyzerAnalyze ==
    /\ analyzer # <<>>
    /\ analyzer[1].runs < MaxRuns
    /\ analyzer' = <<VoteAnalyzer_analyze(analyzer[1], school_manager, vote_manager)>>
    /\ lastError' = "none"
    /\ UNCHANGED <<repos, results, report, pc, returned, managers, files>>

NoSchoolManager == [schools |-> EmptyDict]

NoAwardManager ==
    [awards |-> <<>>, awards_by_index |-> EmptyDict,
     works |-> EmptyDict, works_by_award |-> EmptyDict]

NoVoteManager ==
    [votes |-> <<>>, votes_count |-> 0, school_votes |-> EmptyDict,
     vote_matrix_size |-> <<>>]

NoResults ==
    [total_avg |-> <<>>, total_nonzero_avg |-> <<>>,
     school_avg |-> EmptyDict, school_nonzero_avg |-> EmptyDict,
     total_school_avg |-> <<>>, total_school_nonzero_avg |-> <<>>]

NoReport == [stats |-> EmptyDict, schools |-> <<>>, awards |-> <<>>]

Init ==
    /\ votes = <<>>
    /\ school_votes = EmptyDict
    /\ schools = EmptyDict
    /\ awards = <<>>
    /\ works = EmptyDict
    /\ works_by_award = EmptyDict
    /\ results = NoResults
    /\ report = NoReport
    /\ pc = "load"
    /\ lastError = "none"
    /\ returned = <<>>
    /\ school_manager = NoSchoolManager
    /\ award_manager = NoAwardManager
    /\ vote_manager = NoVoteManager
    /\ analyzer = <<>>
    /\ msgpack_file = NoReport
    /\ rev_json = NoReport

\* A client of the repositories and services: any operation in any order
\* until analyze has returned, at most MaxVotes add_vote calls.
ClientAddVote(v) ==
    /\ IndexedCount(school_votes) < MaxVotes
    /\ AddVote(v)

Next ==
    \/ \E v \in VoteInputs : ClientAddVote(v)
    \/ \E n \in SchoolNames, l \in Locations : AddSchool(n, l)
    \/ \E n \in AwardNames, wl \in WorksLists : LoadAward(n, wl)
    \/ Analyze
    \/ GenerateReport

Spec == Init /\ [][Next]_vars

\* main runs its steps in order and the first exception ends the run.
\* main: the schools are registered first.
MainAddSchool(n, l) ==
    /\ lastError = "none"
    /\ awards = <<>>
    /\ votes = <<>>
    /\ AddSchool(n, l)

\* main: then the awards and their works, before the import.
MainLoadAward(n, wl) ==
    /\ lastError = "none"
    /\ votes = <<>>
    /\ LoadAward(n, wl)

\* main: the import, one call on the loader's whole sheet, before which no
\* vote is stored.
ImportRows ==
    UNION { [1..k -> { Row(sn, m) : sn \in SchoolNames, m \in VoteMatrices }] :
              k \in 0..MaxImported }

MainImport ==
    /\ lastError = "none"
    /\ votes = <<>>
    /\ \E rows \in ImportRows : ImportVotesFromLoader(rows)

MainAnalyze == lastError = "none" /\ Analyze

MainGenerateReport == lastError = "none" /\ GenerateReport

NextMain ==
    \/ \E n \in SchoolNames, l \in Locations : MainAddSchool(n, l)
    \/ \E n \in AwardNames, wl \in WorksLists : MainLoadAward(n, wl)
    \/ MainImport
    \/ MainAnalyze
    \/ MainGenerateReport

SpecMain == Init /\ [][NextMain]_vars

\* main to its end: after the report the .msgpack file is converted back.
MainMsgpackToJson == lastError = "none" /\ MsgpackToJson

NextReport ==
    \/ \E n \in SchoolNames, l \in Locations : MainAddSchool(n, l)
    \/ \E n \in AwardNames, wl \in WorksLists : MainLoadAward(n, wl)
    \/ MainImport
    \/ MainAnalyze
    \/ MainGenerateReport
    \/ MainMsgpackToJson

SpecReport == Init /\ [][NextReport]_vars

\* A client of the award and work repositories: awards seeded with their
\* works as main does, from any works lists, and add_work calls of its own.
NextWorks ==
    \/ \E n \in AwardNames, wl \in SeedLists : LoadAward(n, wl)
    \/ \E t \in SeedTitles, a \in AwardNames, i \in WorkIndexes :
          AddWork(t, a, i)

SpecWorks == Init /\ [][NextWorks]_vars

\* The locations tables handed to update_school_locations.
LocationRows ==
    UNION { [1..k -> { LocationRow(n, l) : n \in SchoolNames, l \in RowLocations }] :
              k \in 0..MaxRows }

\* A client of the school repository and of the legacy SchoolManager.
NextSchools ==
    \/ \E n \in SchoolNames, l \in SeedLocations : AddSchool(n, l)
    \/ \E rows \in LocationRows : UpdateSchoolLocations(rows)
    \/ \E n \in SchoolNames, l \in SeedLocations : SchoolManagerAddSchool(n, l)
    \/ \E rows \in LocationRows : SchoolManagerUpdateLocations(rows)

SpecSchools == Init /\ [][NextSchools]_vars

\* A client that registers schools and awards and looks them up by name.
NextLookup ==
    \/ \E n \in SchoolNames, l \in SeedLocations : AddSchool(n, l)
    \/ \E n \in AwardNames, wl \in WorksLists : LoadAward(n, wl)
    \/ \E n \in SchoolNames : GetSchoolByName(n)
    \/ \E n \in AwardNames : GetAwardByName(n)

SpecLookup == Init /\ [][NextLookup]_vars

\* A client that seeds the award repository and the legacy AwardManager,
\* calls analyze and hands votes to the legacy VoteManager.
NextLegacy ==
    \/ \E n \in AwardNames, wl \in WorksLists : LoadAward(n, wl)
    \/ Analyze
    \/ \E n \in AwardNames, wl \in WorksLists : AwardManagerAddAward(n, wl)
    \/ \E v \in VoteInputs : VoteManagerAddVote(v)

SpecLegacy == Init /\ [][NextLegacy]_vars

\* A client of the legacy engine: schools, awards and votes handed to the
\* managers, one VoteAnalyzer built on them and run.
NextAnalyzer ==
    \/ \E n \in SchoolNames, l \in Locations : SchoolManagerAddSchool(n, l)
    \/ \E n \in AwardNames, wl \in WorksLists : AwardManagerAddAward(n, wl)
    \/ \E v \in VoteInputs : VoteManagerAddVote(v)
    \/ NewVoteAnalyzer
    \/ VoteAnalyzerAnalyze

SpecAnalyzer == Init /\ [][NextAnalyzer]_vars

\* The votes a client of the accumulation hands in: two ids, either school,
\* one row of two scores.
AccumulateInputs ==
    { Vote(id, sn, m) : id \in VoteIds, sn \in SchoolNames,
                        m \in { << <<3, 0>> >>, << <<0, 5>> >> } }

\* A client that registers schools and awards, adds votes of registered and
\* unregistered schools and calls analyze.
NextAccumulate ==
    \/ \E n \in SchoolNames, l \in Locations : AddSchool(n, l)
    \/ \E n \in AwardNames, wl \in WorksLists : LoadAward(n, wl)
    \/ \E v \in AccumulateInputs : ClientAddVote(v)
    \/ Analyze

SpecAccumulate == Init /\ [][NextAccumulate]_vars

\* ================================================================ claims
\* The canonical shape votes are meant to have, once an award exists.
CanonicalShape == get_matrix_size(awards)

Analyzed == pc \in {"analyzed", "reported"}

\* C1: an add_vote whose matrix shape differs from (number of awards,
\* maximum work count) fails and leaves votes and school_votes as they were.
C1_ShapeMismatchRejected ==
    [][\A v \in VoteInputs :
          (awards # <<>> /\ Shape(v.matrix) # CanonicalShape /\ AddVote(v))
          => /\ lastError' # "none"
             /\ votes' = votes
             /\ school_votes' = school_votes]_vars

\* C2: an add_vote whose id is already stored fails with an error and
\* appends to neither the global collection nor a per-school list.
C2_DuplicateIdRejected ==
    [][\A v \in VoteInputs :
          (VoteIndex(votes, v.id) # 0 /\ AddVote(v))
          => /\ lastError' # "none"
             /\ votes' = votes
             /\ school_votes' = school_votes]_vars

\* C3: analyze on an empty vote repository, with an award and a school
\* registered, returns a result whose total_avg is the zero matrix of the
\* canonical shape instead of raising.
C3_EmptyVotesZeroMatrix ==
    [][(votes = <<>> /\ awards # <<>> /\ DOMAIN schools # {} /\ Analyze)
          => /\ lastError' = "none"
             /\ pc' = "analyzed"
             /\ results'.total_avg
                    = [i \in 1..CanonicalShape[1] |->
                          [j \in 1..CanonicalShape[2] |-> Zero]]]_vars

\* Registered schools with at least one vote in the per-school index.
VotingSchools ==
    { s \in DOMAIN schools : get_votes_by_school(school_votes, s) # <<>> }

\* C4: the keys of school_avg and of school_nonzero_avg are exactly the
\* registered schools with at least one stored vote.
C4_SchoolAvgKeys ==
    Analyzed =>
        /\ DOMAIN results.school_avg = VotingSchools
        /\ DOMAIN results.school_nonzero_avg = VotingSchools
        /\ Cardinality(DOMAIN results.school_avg) = Cardinality(VotingSchools)

\* C4 witness: analyze returned while one registered school has votes and
\* another has none.
C4_Witness ==
    /\ pc = "analyzed"
    /\ VotingSchools # {}
    /\ DOMAIN schools \ VotingSchools # {}

RECURSIVE DenProduct(_, _, _, _)
DenProduct(S, ms, i, j) ==
    IF S = {} THEN 1
    ELSE LET s == CHOOSE x \in S : TRUE
         IN ms[s][i][j][2] * DenProduct(S \ {s}, ms, i, j)

\* Sum over s in S of ms[s][i][j], scaled by the common denominator den.
RECURSIVE ScaledSum(_, _, _, _, _)
ScaledSum(S, ms, i, j, den) ==
    IF S = {} THEN 0
    ELSE LET s == CHOOSE x \in S : TRUE
         IN ms[s][i][j][1] * (den \div ms[s][i][j][2])
            + ScaledSum(S \ {s}, ms, i, j, den)

\* t is the arithmetic mean of the cells (i, j) of ms over the schools S.
IsMeanOver(t, S, ms, i, j) ==
    /\ S \subseteq DOMAIN ms
    /\ t[2] > 0
    /\ \A s \in S : ms[s][i][j][2] > 0
    /\ t[1] * DenProduct(S, ms, i, j) * Cardinality(S)
           = t[2] * ScaledSum(S, ms, i, j, DenProduct(S, ms, i, j))

\* C5: every cell of total_school_avg is the unweighted mean of school_avg
\* over the schools with at least one vote, and likewise for
\* total_school_nonzero_avg over school_nonzero_avg.
C5_TotalSchoolAvgIsMean ==
    Analyzed =>
        \A c \in Cells(CanonicalShape) :
            /\ IsMeanOver(results.total_school_avg[c[1]][c[2]],
                          VotingSchools, results.school_avg, c[1], c[2])
            /\ IsMeanOver(results.total_school_nonzero_avg[c[1]][c[2]],
                          VotingSchools, results.school_nonzero_avg, c[1], c[2])

\* C5 witness: two schools with different vote counts voted and their
\* averages differ at a cell, so the mean is neither school's own average.
C5_Witness ==
    /\ pc = "analyzed"
    /\ Cardinality(VotingSchools) = 2
    /\ \E s, t \in VotingSchools :
          get_vote_count_by_school(school_votes, s)
              < get_vote_count_by_school(school_votes, t)
    /\ \E c \in Cells(CanonicalShape) :
          \E s, t \in VotingSchools :
              /\ results.school_avg[s][c[1]][c[2]]
                     # results.school_avg[t][c[1]][c[2]]
              /\ results.total_school_avg[c[1]][c[2]]
                     # results.school_avg[s][c[1]][c[2]]
              /\ results.total_school_avg[c[1]][c[2]]
                     # results.school_avg[t][c[1]][c[2]]
\* The score the vote matrix m itself holds at cell (i, j), if any.
HasCell(m, i, j) == i <= Len(m) /\ j <= Len(m[i])

RECURSIVE ScoreSum(_, _, _)
ScoreSum(vs, i, j) ==
    IF vs = <<>> THEN 0
    ELSE (IF HasCell(Head(vs).matrix, i, j) THEN Head(vs).matrix[i][j] ELSE 0)
         + ScoreSum(Tail(vs), i, j)

RECURSIVE ScoreNonzero(_, _, _)
ScoreNonzero(vs, i, j) ==
    IF vs = <<>> THEN 0
    ELSE (IF HasCell(Head(vs).matrix, i, j) /\ Head(vs).matrix[i][j] # 0
          THEN 1 ELSE 0)
         + ScoreNonzero(Tail(vs), i, j)

AllHaveCell(vs, i, j) ==
    \A k \in 1..Len(vs) : HasCell(vs[k].matrix, i, j)

\* The float x equals the quotient n / d of two integers, d > 0.
IsQuotient(x, n, d) == x[2] > 0 /\ x[1] * d = x[2] * n

\* C6: total_avg is cell by cell the sum of the stored votes' scores
\* divided by the number of stored votes, and school_avg[s] the sum over
\* the votes of s divided by the vote count of s.
C6_AveragesAreSumOverCount ==
    Analyzed =>
        \A c \in Cells(CanonicalShape) :
            /\ AllHaveCell(get_all_votes(votes), c[1], c[2])
            /\ IsQuotient(results.total_avg[c[1]][c[2]],
                          ScoreSum(get_all_votes(votes), c[1], c[2]),
                          Len(get_all_votes(votes)))
            /\ \A s \in DOMAIN results.school_avg :
                  IsQuotient(results.school_avg[s][c[1]][c[2]],
                             ScoreSum(get_votes_by_school(school_votes, s),
                                      c[1], c[2]),
                             get_vote_count_by_school(school_votes, s))

\* x is the non-zero average of the votes vs at cell (i, j): 0 when no
\* vote scores the cell non-zero, else the sum over the non-zero count.
IsNonzeroAverage(x, vs, i, j) ==
    IF ScoreNonzero(vs, i, j) = 0
    THEN x = Zero
    ELSE IsQuotient(x, ScoreSum(vs, i, j), ScoreNonzero(vs, i, j))

\* C7: total_nonzero_avg and every school_nonzero_avg[s] obey the
\* zero-fill law over the stored votes, resp. the votes of s.
C7_NonzeroAverageLaw ==
    Analyzed =>
        \A c \in Cells(CanonicalShape) :
            /\ IsNonzeroAverage(results.total_nonzero_avg[c[1]][c[2]],
                                get_all_votes(votes), c[1], c[2])
            /\ \A s \in DOMAIN results.school_nonzero_avg :
                  IsNonzeroAverage(results.school_nonzero_avg[s][c[1]][c[2]],
                                   get_votes_by_school(school_votes, s),
                                   c[1], c[2])

\* Every vote handed to add_vote so far, school by school.
RECURSIVE AddedVotes(_, _)
AddedVotes(sv, names) ==
    IF names = <<>> THEN <<>>
    ELSE get_votes_by_school(sv, Head(names)) \o AddedVotes(sv, Tail(names))

Orderings(n) ==
    { f \in [1..n -> 1..n] : \A a, b \in 1..n : f[a] = f[b] => a = b }

\* The votes dict after add_vote of the votes of q, in order.
RECURSIVE Replay(_, _)
Replay(vs, q) ==
    IF q = <<>> THEN vs ELSE Replay(StoreVote(vs, Head(q)), Tail(q))

\* C8: the accumulated total_sum is cell by cell the sum of the stored
\* votes' scores, and adding the same votes in any other order yields the
\* same total_sum and total_nonzero_count.
C8_TotalSumExactOrderIndependent ==
    Analyzed =>
        LET size == CanonicalShape
            added == AddedVotes(school_votes, SchoolOrder)
        IN /\ \A c \in Cells(size) :
                 /\ AllHaveCell(votes, c[1], c[2])
                 /\ total_sum(votes, size)[c[1]][c[2]]
                        = ScoreSum(votes, c[1], c[2])
           /\ \A f \in Orderings(Len(added)) :
                 LET other == Replay(<<>>, [k \in 1..Len(added) |-> added[f[k]]])
                 IN /\ LoopError(other, schools, size) = "none"
                    /\ total_sum(other, size) = total_sum(votes, size)
                    /\ total_nonzero_count(other, size)
                           = total_nonzero_count(votes, size)

\* The scenario of C9: schools X and Y, one award with works [A, B], one
\* vote [[3, 0]] from X and one vote [[0, 5]] from Y.
C9_Scenario ==
    /\ DOMAIN schools = {"X", "Y"}
    /\ Len(awards) = 1
    /\ awards[1].works = <<"A", "B">>
    /\ Len(votes) = 2
    /\ \E k \in 1..2 :
          /\ votes[k].school = "X" /\ votes[k].matrix = << <<3, 0>> >>
          /\ votes[3 - k].school = "Y" /\ votes[3 - k].matrix = << <<0, 5>> >>
    /\ get_vote_count_by_school(school_votes, "X") = 1
    /\ get_vote_count_by_school(school_votes, "Y") = 1

\* C9: in that scenario total_avg = [[1.5, 2.5]], total_nonzero_avg =
\* [[3, 5]] and total_school_avg = [[1.5, 2.5]].
C9_ScenarioResult ==
    (Analyzed /\ C9_Scenario) =>
        /\ results.total_avg = << << <<3, 2>>, <<5, 2>> >> >>
        /\ results.total_nonzero_avg = << << <<3, 1>>, <<5, 1>> >> >>
        /\ results.total_school_avg = << << <<3, 2>>, <<5, 2>> >> >>

\* C9 witness: analyze has returned in the scenario.
C9_Witness == pc = "analyzed" /\ C9_Scenario

\* The school s is listed in the school_avg list of the work entry w.
ListedIn(w, s) ==
    \E k \in 1..Len(w.school_avg) : w.school_avg[k].school_name = s

\* C10: in the report a school is listed under a work exactly when its
\* per-school average at the work's cell is non-zero.
C10_SchoolListedIffNonzero ==
    pc = "reported" =>
        \A i \in 1..Len(report.awards) :
            \A k \in 1..Len(report.awards[i].works) :
                LET w == report.awards[i].works[k]
                    col == works[w.title][report.awards[i].name] + 1
                IN \A s \in SchoolNames :
                      ListedIn(w, s)
                          <=> /\ s \in DOMAIN results.school_avg
                              /\ results.school_avg[s][i][col] # Zero

\* The work entry w of the report holds the cells (i, j + 1) of res, i the
\* 1-based position of its award and j its 0-based column.
HoldsCells(w, res, i, j) ==
    /\ w.total_avg.avg = res.total_avg[i][j + 1]
    /\ w.total_avg.nonzero_avg = res.total_nonzero_avg[i][j + 1]
    /\ w.total_school_avg.avg = res.total_school_avg[i][j + 1]
    /\ w.total_school_avg.nonzero_avg = res.total_school_nonzero_avg[i][j + 1]
    /\ \A m \in 1..Len(w.school_avg) :
          LET e == w.school_avg[m]
          IN /\ e.school_name \in DOMAIN res.school_avg
             /\ e.avg = res.school_avg[e.school_name][i][j + 1]
             /\ e.nonzero_avg = res.school_nonzero_avg[e.school_name][i][j + 1]

\* C11: the report lists the awards in registration order and, within an
\* award, the works in ascending column index; a work with column j under
\* the award at position i carries the cells [i][j] of the result matrices,
\* j is below the award's work count, and no read leaves the matrices.
C11_ReportOrderAndCells ==
    /\ lastError # "IndexError"
    /\ pc = "reported" =>
          /\ Len(report.awards) = Len(awards)
          /\ \A i \in 1..Len(awards) :
                LET listed == report.awards[i].works
                    col(k) == works[listed[k].title][awards[i].name]
                IN /\ report.awards[i].name = awards[i].name
                   /\ \A k \in 1..Len(listed) :
                         /\ col(k) >= 0
                         /\ col(k) < Len(awards[i].works)
                         /\ \A l \in 1..(k - 1) : col(l) < col(k)
                         /\ HoldsCells(listed[k], results, i, col(k))

\* C11 witness: a report over two awards, one of them with two works, whose
\* rows of total_avg differ.
C11_Witness ==
    /\ pc = "reported"
    /\ Len(report.awards) = 2
    /\ \E i \in 1..2 : Len(report.awards[i].works) = 2
    /\ results.total_avg[1] # results.total_avg[2]

\* The work repository after main's seed loop over the awards aw[k..].
RECURSIVE SeedAll(_, _, _)
SeedAll(wr, aw, k) ==
    IF k > Len(aw) THEN wr
    ELSE SeedAll(SeedWorks(wr, aw[k].name, aw[k].works, 0), aw, k + 1)

\* The work repository holds what main's seed loading of the registered
\* awards stores, and nothing else.
SeededAsMain ==
    [works |-> works, by_award |-> works_by_award]
        = SeedAll([works |-> EmptyDict, by_award |-> EmptyDict], awards, 1)

\* C12: after seed loading as main does it, get_works_by_award(award) is
\* ascending in the award's column index and equals award.works element by
\* element, for every registered award.
C12_WorksMatchAwardList ==
    SeededAsMain =>
        \A i \in 1..Len(awards) :
            LET ws == get_works_by_award(works, works_by_award, awards[i].name)
            IN /\ ws = awards[i].works
               /\ \A k \in 1..Len(ws) : \A l \in 1..(k - 1) :
                     works[ws[l]][awards[i].name] < works[ws[k]][awards[i].name]

Occurrences(q, x) == Cardinality({ k \in 1..Len(q) : q[k] = x })

\* C13: add_work of a stored title under a second award stores no second
\* work: the set of stored titles and every other work are unchanged, the
\* stored award_indexes gain the new award with its index and keep the old
\* ones, and the work is listed once under each of its awards.
C13_MergeUnderSecondAward ==
    [][\A t \in SeedTitles, a \in AwardNames, i \in WorkIndexes :
          (t \in DOMAIN works /\ a \notin DOMAIN works[t] /\ AddWork(t, a, i))
          => /\ lastError' = "none"
             /\ DOMAIN works' = DOMAIN works
             /\ Cardinality(DOMAIN works') = Cardinality(DOMAIN works)
             /\ \A u \in DOMAIN works \ {t} : works'[u] = works[u]
             /\ DOMAIN works'[t] = DOMAIN works[t] \cup {a}
             /\ works'[t][a] = i
             /\ \A b \in DOMAIN works[t] : works'[t][b] = works[t][b]
             /\ \A b \in DOMAIN works'[t] :
                   Occurrences(get_works_by_award(works', works_by_award', b), t)
                       = 1]_vars

\* C13 witness: one stored work holds two award keys with different
\* indexes and is listed under both awards, next to another stored work.
C13_Witness ==
    \E t \in DOMAIN works :
        /\ DOMAIN works[t] = {"P", "Q"}
        /\ works[t]["P"] # works[t]["Q"]
        /\ Cardinality(DOMAIN works) = 2
        /\ \A b \in {"P", "Q"} :
              Occurrences(get_works_by_award(works, works_by_award, b), t) = 1

\* C14: add_school of a registered name raises the duplicate error and
\* leaves the stored schools, locations included, as they were; the same
\* for the legacy SchoolManager.
C14_DuplicateSchoolRejected ==
    [][\A n \in SchoolNames, l \in SeedLocations :
          /\ (n \in DOMAIN schools /\ AddSchool(n, l))
             => /\ lastError' = "ValueError: school exists"
                /\ schools' = schools
                /\ schools'[n].location = schools[n].location
                /\ Cardinality(DOMAIN schools') = Cardinality(DOMAIN schools)
          /\ (n \in DOMAIN school_manager.schools /\ SchoolManagerAddSchool(n, l))
             => /\ lastError' = "ValueError: School already exists"
                /\ school_manager' = school_manager]_vars

\* C14 witness: an add_school was rejected while a school registered with
\* a location and one registered without are stored.
C14_Witness ==
    /\ lastError = "ValueError: school exists"
    /\ \E n, m \in DOMAIN schools :
          schools[n].location = "N" /\ schools[m].location = "none"

\* C16: get_school_by_name and get_award_by_name return the entity stored
\* under the name, raise KeyError when there is none, and change no
\* repository either way.
C16_LookupByName ==
    [][/\ \A n \in SchoolNames :
             GetSchoolByName(n)
             => /\ repos' = repos
                /\ IF n \in DOMAIN schools
                   THEN /\ lastError' = "none"
                        /\ returned' = <<schools[n]>>
                        /\ returned'[1].name = n
                   ELSE lastError' = "KeyError: school"
       /\ \A n \in AwardNames :
             GetAwardByName(n)
             => /\ repos' = repos
                /\ IF \E i \in 1..Len(awards) : awards[i].name = n
                   THEN /\ lastError' = "none"
                        /\ \E i \in 1..Len(awards) : returned' = <<awards[i]>>
                        /\ returned'[1].name = n
                   ELSE lastError' = "KeyError: award"]_vars

\* C16 witness: a lookup returned a stored school and a later lookup of an
\* award failed.
C16_Witness ==
    /\ lastError = "KeyError: award"
    /\ \E n \in DOMAIN schools : returned = <<schools[n]>>

\* The last row of rows that names n.
LastRowFor(rows, n) ==
    rows[Max({ k \in 1..Len(rows) : rows[k].name = n })]

\* sch2 is sch after a location update with rows: same schools, a school
\* named by a row has the location of the last such row, any other is
\* untouched.
LocationsUpdated(sch, sch2, rows) ==
    /\ DOMAIN sch2 = DOMAIN sch
    /\ \A n \in DOMAIN sch :
          IF \E k \in 1..Len(rows) : rows[k].name = n
          THEN sch2[n] = [name |-> n, location |-> LastRowFor(rows, n).location]
          ELSE sch2[n] = sch[n]

\* C20: update_school_locations(rows) never fails, adds or removes no
\* school, gives every registered school named in rows the location of
\* the last row naming it and leaves all others untouched; the same for
\* the legacy SchoolManager.
C20_UpdateLocationsFrame ==
    [][\A rows \in LocationRows :
          /\ UpdateSchoolLocations(rows)
             => /\ lastError' = "none"
                /\ LocationsUpdated(schools, schools', rows)
          /\ SchoolManagerUpdateLocations(rows)
             => /\ lastError' = "none"
                /\ LocationsUpdated(school_manager.schools,
                                    school_manager'.schools, rows)]_vars

\* C20 witness: an update gave one school the location only a row holds
\* while the other registered school kept the one it was registered with.
C20_Witness ==
    /\ lastError = "none"
    /\ DOMAIN schools = {"X", "Y"}
    /\ \E n, m \in DOMAIN schools :
          schools[n].location = "S" /\ schools[m].location = "none"

\* C15: add_award of a registered name raises the duplicate error before
\* anything is stored: the awards and their order are unchanged and the
\* seed loop is not run, and in AwardManager the awards, works and
\* works_by_award are unchanged.
C15_DuplicateAwardRejected ==
    [][\A n \in AwardNames, wl \in WorksLists :
          /\ (n \in AwardKeys(awards) /\ LoadAward(n, wl))
             => /\ lastError' = "ValueError: award exists"
                /\ get_all_awards(awards') = get_all_awards(awards)
                /\ works' = works
                /\ works_by_award' = works_by_award
          /\ ((\E k \in 1..Len(award_manager.awards) : award_manager.awards[k] = n)
                 /\ AwardManagerAddAward(n, wl))
             => /\ lastError' = "ValueError: Award already exists"
                /\ award_manager' = award_manager]_vars

\* C15 witness: an add_award was rejected while two awards with different
\* works lists are registered.
C15_Witness ==
    /\ lastError = "ValueError: award exists"
    /\ Len(awards) = 2
    /\ awards[1].works # awards[2].works

\* C17: with no award registered the shape computation raises: analyze
\* raises ValueError and main gets no results, and VoteManager.add_vote
\* raises the same error, storing no vote and caching no shape.
C17_EmptyAwardSetFails ==
    [][/\ (awards = <<>> /\ Analyze)
          => /\ lastError' = "ValueError: max of empty"
             /\ results' = NoResults
             /\ pc' = "load"
       /\ \A v \in VoteInputs :
             (award_manager.awards = <<>> /\ VoteManagerAddVote(v))
             => /\ lastError' = "ValueError: max of empty (VoteManager)"
                /\ vote_manager' = NoVoteManager]_vars

\* C17 witness: VoteManager.add_vote was rejected for the empty award set
\* and neither analysis results nor a stored vote exist.
C17_Witness ==
    /\ lastError = "ValueError: max of empty (VoteManager)"
    /\ award_manager.awards = <<>>
    /\ vote_manager = NoVoteManager
    /\ results = NoResults

\* What import_votes_from_loader(rows) would leave, called in this state.
ImportOutcome(rows) ==
    import_votes_from_loader(votes, school_votes, schools, rows)

\* main is about to call the import.
ImportReady == pc = "load" /\ lastError = "none" /\ votes = <<>>

\* C18: main's import either fails as a whole or succeeds as a whole.
\* Whatever the sheet, when a row is rejected the call raises and leaves
\* votes and school_votes as they were, otherwise every row's vote is
\* stored, in order, none skipped; and no step that raises changes the
\* vote repository.
C18_ImportAllOrNothing ==
    /\ [](ImportReady =>
            \A rows \in ImportRows :
                IF \E k \in 1..Len(rows) : rows[k].school \notin DOMAIN schools
                THEN /\ ImportOutcome(rows).error = "KeyError: school"
                     /\ ImportOutcome(rows).votes = votes
                     /\ ImportOutcome(rows).school_votes = school_votes
                ELSE /\ ImportOutcome(rows).error = "none"
                     /\ Len(ImportOutcome(rows).votes) = Len(rows)
                     /\ \A k \in 1..Len(rows) :
                           /\ ImportOutcome(rows).votes[k].school = rows[k].school
                           /\ ImportOutcome(rows).votes[k].matrix = rows[k].matrix
                     /\ \A sn \in SchoolNames :
                           get_vote_count_by_school(
                               ImportOutcome(rows).school_votes, sn)
                               = Cardinality({ k \in 1..Len(rows) :
                                                 rows[k].school = sn }))
    /\ [][/\ lastError' # "none"
             => votes' = votes /\ school_votes' = school_votes
          /\ (votes' # votes \/ school_votes' # school_votes)
             => /\ ImportReady
                /\ \A k \in 1..Len(votes') : votes'[k].school \in DOMAIN schools
                /\ \A sn \in SchoolNames :
                      get_vote_count_by_school(school_votes', sn)
                          = Len(VotesOf(votes', sn))]_vars

\* C18 witness: an import failed on a row of an unregistered school while
\* another school is registered, and no vote is stored.
C18_Witness ==
    /\ lastError = "KeyError: school"
    /\ Cardinality(DOMAIN schools) = 1
    /\ awards # <<>>
    /\ votes = <<>>
    /\ school_votes = EmptyDict

\* C19: analyze and generate_report leave the six repository fields
\* unchanged; in main a repository changes only while no error was raised
\* and analyze has not been called, results appear only at the step from
\* loading to analyzed, and the report only once results exist.
C19_ReposFrozenAfterImport ==
    [][/\ (Analyze \/ GenerateReport) => repos' = repos
       /\ repos' # repos
          => /\ lastError = "none"
             /\ pc = "load" /\ pc' = "load"
             /\ results = NoResults /\ results' = NoResults
             /\ report = NoReport /\ report' = NoReport
       /\ results' # results
          => /\ pc = "load" /\ pc' = "analyzed"
             /\ report = NoReport
       /\ report' # report
          => /\ pc = "analyzed" /\ pc' = "reported"
             /\ results # NoResults /\ results' = results]_vars

\* C19 witness: main reached the report with two imported votes, two
\* schools and two awards in the repositories.
C19_Witness ==
    /\ pc = "reported"
    /\ Len(votes) >= 2
    /\ Len(awards) = 2
    /\ Cardinality(DOMAIN schools) = 2

\* The float y is the float x rounded to 4 decimal places: a multiple of
\* 1/10000 at most half a unit away from x.
IsRounded4(y, x) ==
    /\ x[2] > 0
    /\ y[2] > 0
    /\ 10000 % y[2] = 0
    /\ LET k == y[1] * (10000 \div y[2])
           diff == k * x[2] - x[1] * 10000
       IN 2 * (IF diff < 0 THEN 0 - diff ELSE diff) <= x[2]

\* The pair q of a decoded work entry is the pair p of the original, rounded.
PairRounded4(q, p) ==
    /\ DOMAIN q = DOMAIN p
    /\ IsRounded4(q.avg, p.avg)
    /\ IsRounded4(q.nonzero_avg, p.nonzero_avg)

\* C22: the document decoded by msgpack_to_json from the file JsonReporter
\* wrote has the keys, list lengths and order of the report document, its
\* strings and integers unchanged, and every float equal to the original
\* rounded to 4 decimal places.
C22_RoundTripRounded ==
    pc = "converted" =>
        /\ DOMAIN rev_json = DOMAIN report
        /\ rev_json.stats = report.stats
        /\ rev_json.schools = report.schools
        /\ Len(rev_json.awards) = Len(report.awards)
        /\ \A i \in 1..Len(report.awards) :
              LET a == report.awards[i]
                  b == rev_json.awards[i]
              IN /\ b.name = a.name
                 /\ Len(b.works) = Len(a.works)
                 /\ \A k \in 1..Len(a.works) :
                       /\ DOMAIN b.works[k] = DOMAIN a.works[k]
                       /\ b.works[k].title = a.works[k].title
                       /\ PairRounded4(b.works[k].total_avg, a.works[k].total_avg)
                       /\ PairRounded4(b.works[k].total_school_avg,
                                       a.works[k].total_school_avg)
                       /\ Len(b.works[k].school_avg) = Len(a.works[k].school_avg)
                       /\ \A m \in 1..Len(a.works[k].school_avg) :
                             /\ b.works[k].school_avg[m].school_name
                                    = a.works[k].school_avg[m].school_name
                             /\ IsRounded4(b.works[k].school_avg[m].avg,
                                           a.works[k].school_avg[m].avg)
                             /\ IsRounded4(b.works[k].school_avg[m].nonzero_avg,
                                           a.works[k].school_avg[m].nonzero_avg)

\* (number of awards, maximum work count) of the AwardManager as it is now.
ManagerShape ==
    <<Len(award_manager.awards),
      Max({ Len(award_manager.works_by_award[award_manager.awards[k]]) :
               k \in 1..Len(award_manager.awards) })>>

StoredId(id) ==
    \E k \in 1..Len(vote_manager.votes) : vote_manager.votes[k].id = id

\* C23: every VoteManager.add_vote of a new id, with an award registered,
\* is checked against (number of awards registered now, maximum work count
\* now): it is accepted exactly when the vote has that shape, and that is
\* the shape the manager holds afterwards.
C23_ShapeFollowsAwards ==
    [][\A v \in VoteInputs :
          (award_manager.awards # <<>> /\ ~ StoredId(v.id) /\ VoteManagerAddVote(v))
          => /\ lastError' = "none" <=> Shape(v.matrix) = ManagerShape
             /\ vote_manager'.vote_matrix_size = ManagerShape]_vars

\* The ids of all per-school lists of the VoteManager.
ListedIds ==
    SumOver(DOMAIN vote_manager.school_votes,
            [s \in DOMAIN vote_manager.school_votes |->
                Len(vote_manager.school_votes[s])])

\* C24: a VoteManager.add_vote that repeats a stored id or has the wrong
\* shape raises and leaves votes, votes_count and school_votes unchanged;
\* at all times votes_count = len(votes) = the number of ids over all
\* school_votes lists, and each stored id is in exactly one school's list,
\* once, the list of its vote's school.
C24_RejectedVoteLeavesCounts ==
    /\ [](/\ vote_manager.votes_count = Len(vote_manager.votes)
          /\ ListedIds = Len(vote_manager.votes)
          /\ \A k \in 1..Len(vote_manager.votes) :
                LET v == vote_manager.votes[k]
                IN /\ v.school \in DOMAIN vote_manager.school_votes
                   /\ \A s \in DOMAIN vote_manager.school_votes :
                         Occurrences(vote_manager.school_votes[s], v.id)
                             = IF s = v.school THEN 1 ELSE 0)
    /\ [][\A v \in VoteInputs :
             VoteManagerAddVote(v)
             => /\ (StoredId(v.id)
                      \/ vote_matrix_size(vote_manager, award_manager).error # "none"
                      \/ Shape(v.matrix)
                             # vote_matrix_size(vote_manager, award_manager).size)
                   => lastError' # "none"
                /\ lastError' # "none"
                   => /\ vote_manager'.votes = vote_manager.votes
                      /\ vote_manager'.votes_count = vote_manager.votes_count
                      /\ vote_manager'.school_votes = vote_manager.school_votes]_vars

\* C24 witness: a vote was rejected for its shape while a vote of another
\* shape is stored and counted.
C24_Witness ==
    /\ lastError = "ValueError: Vote matrix size is invalid"
    /\ vote_manager.votes_count = 1
    /\ Len(vote_manager.votes) = 1
    /\ DOMAIN vote_manager.school_votes = {vote_manager.votes[1].school}
    /\ Len(award_manager.awards) = 2

\* The awards of the AwardManager as Award entities: each name with the
\* works list it was registered with.
ManagerAwards ==
    [k \in 1..Len(award_manager.awards) |->
        Award(award_manager.awards[k],
              award_manager.works_by_award[award_manager.awards[k]])]

\* The per-school index a vote repository holds after the VoteManager's
\* votes were added to it in their order.
ManagerSchoolVotes ==
    [s \in DOMAIN vote_manager.school_votes |->
        manager_votes_by_school(vote_manager, s)]

\* What AnalysisService.analyze returns on the schools, awards and accepted
\* votes the managers hold.
ServiceOnManagers ==
    analyze(vote_manager.votes, ManagerSchoolVotes, school_manager.schools,
            ManagerAwards)

\* C21: whenever VoteAnalyzer.analyze has run once, AnalysisService.analyze
\* on the same schools, awards and votes returns too, and total_avg,
\* total_nonzero_avg, the per-school averages, total_school_avg and
\* total_school_nonzero_avg of the two are equal.
C21_LegacyEngineAgrees ==
    [][(analyzer # <<>> /\ analyzer[1].runs = 0 /\ VoteAnalyzerAnalyze)
          => /\ ServiceOnManagers.error = "none"
             /\ analyzer'[1].total_avg = ServiceOnManagers.total_avg
             /\ analyzer'[1].total_nonzero_avg = ServiceOnManagers.total_nonzero_avg
             /\ analyzer'[1].school_avg = ServiceOnManagers.school_avg
             /\ analyzer'[1].school_nonzero_avg
                    = ServiceOnManagers.school_nonzero_avg
             /\ analyzer'[1].total_school_avg = ServiceOnManagers.total_school_avg
             /\ analyzer'[1].total_school_nonzero_avg
                    = ServiceOnManagers.total_school_nonzero_avg]_vars

\* The analyzer is as one analyze call on the managers, as they are now,
\* leaves a newly built one.
AnalyzedOnceOnThese ==
    /\ analyzer # <<>>
    /\ analyzer[1] = VoteAnalyzer_analyze(NewAnalyzer(analyzer[1].matrix_size),
                                          school_manager, vote_manager)

\* C29: a second VoteAnalyzer.analyze on unchanged managers leaves
\* total_sum, total_nonzero_count, total_avg, total_nonzero_avg,
\* total_school_avg and total_school_nonzero_avg as the first call left them.
C29_AnalyzeIdempotent ==
    [][(AnalyzedOnceOnThese /\ VoteAnalyzerAnalyze)
          => /\ analyzer'[1].total_sum = analyzer[1].total_sum
             /\ analyzer'[1].total_nonzero_count = analyzer[1].total_nonzero_count
             /\ analyzer'[1].total_avg = analyzer[1].total_avg
             /\ analyzer'[1].total_nonzero_avg = analyzer[1].total_nonzero_avg
             /\ analyzer'[1].total_school_avg = analyzer[1].total_school_avg
             /\ analyzer'[1].total_school_nonzero_avg
                    = analyzer[1].total_school_nonzero_avg]_vars

\* C25: the per-school index and the global collection of the vote
\* repository agree: every vote of get_all_votes is once in the list of its
\* own school and in no other list, and the per-school vote counts add up
\* to len(get_all_votes()).
C25_IndexAgreesWithCollection ==
    /\ \A k \in 1..Len(get_all_votes(votes)) :
          \A s \in SchoolNames :
              Occurrences(get_votes_by_school(school_votes, s),
                          get_all_votes(votes)[k])
                  = IF s = get_all_votes(votes)[k].school THEN 1 ELSE 0
    /\ SumOver(SchoolNames,
               [s \in SchoolNames |-> get_vote_count_by_school(school_votes, s)])
           = Len(get_all_votes(votes))

RECURSIVE VoteCountSum(_)
VoteCountSum(entries) ==
    IF entries = <<>> THEN 0
    ELSE Head(entries).vote_count + VoteCountSum(Tail(entries))

\* C26: in the report document stats.total_school_count is the length of
\* the schools list and the number of schools with at least one vote, and
\* the listed vote_count values add up to stats.total_vote_count.
C26_ReportCountsAgree ==
    pc = "reported" =>
        /\ report.stats.total_school_count = Len(report.schools)
        /\ report.stats.total_school_count
               = Cardinality({ s \in SchoolNames :
                                 get_vote_count_by_school(school_votes, s) > 0 })
        /\ VoteCountSum(report.schools) = report.stats.total_vote_count

\* x >= y for two floats that are numbers.
FGeq(x, y) == x[2] > 0 /\ y[2] > 0 /\ x[1] * y[2] >= y[1] * x[2]

\* Every vote of vs scores the cell (i, j) non-zero, or every vote scores
\* it zero; a vote's score at a cell is the one the engine adds for it.
AllNonzeroOrAllZero(vs, i, j) ==
    \/ \A k \in 1..Len(vs) : Bcast(vs[k].matrix, i, j) # 0
    \/ \A k \in 1..Len(vs) : Bcast(vs[k].matrix, i, j) = 0

\* C28: in every cell the non-zero average is at least the plain average,
\* and the two are equal exactly when every vote is non-zero there or
\* every vote is zero there; for the totals over all stored votes and for
\* each school over its own votes.
C28_NonzeroAvgAtLeastAvg ==
    Analyzed =>
        \A c \in Cells(CanonicalShape) :
            /\ FGeq(results.total_nonzero_avg[c[1]][c[2]],
                    results.total_avg[c[1]][c[2]])
            /\ results.total_nonzero_avg[c[1]][c[2]] = results.total_avg[c[1]][c[2]]
                   <=> AllNonzeroOrAllZero(get_all_votes(votes), c[1], c[2])
            /\ \A s \in DOMAIN results.school_avg :
                  /\ FGeq(results.school_nonzero_avg[s][c[1]][c[2]],
                          results.school_avg[s][c[1]][c[2]])
                  /\ results.school_nonzero_avg[s][c[1]][c[2]]
                         = results.school_avg[s][c[1]][c[2]]
                     <=> AllNonzeroOrAllZero(get_votes_by_school(school_votes, s),
                                             c[1], c[2])

UnregisteredVote ==
    \E k \in 1..Len(votes) : votes[k].school \notin DOMAIN schools

\* C27: when analyze's accumulation loop runs through, every stored vote's
\* school being registered, the school_sum matrices of the registered
\* schools add up cell by cell to total_sum and the school_nonzero_count
\* matrices to total_nonzero_count; with a stored vote of an unregistered
\* school analyze raises and main gets no results.
C27_SchoolSumsAddUp ==
    /\ [](awards # <<>> =>
            LET size == get_matrix_size(awards)
                all == get_all_votes(votes)
                ssum == school_sum(all, schools, size)
                snz == school_nonzero_count(all, schools, size)
            IN /\ (~ UnregisteredVote /\ LoopError(all, schools, size) = "none")
                  => \A c \in Cells(size) :
                        /\ SumOver(DOMAIN schools,
                                   [s \in DOMAIN schools |-> ssum[s][c[1]][c[2]]])
                               = total_sum(all, size)[c[1]][c[2]]
                        /\ SumOver(DOMAIN schools,
                                   [s \in DOMAIN schools |-> snz[s][c[1]][c[2]]])
                               = total_nonzero_count(all, size)[c[1]][c[2]]
               /\ UnregisteredVote
                  => analyze(votes, school_votes, schools, awards).error # "none")
    /\ [][(UnregisteredVote /\ Analyze)
             => /\ lastError' # "none"
                /\ results' = NoResults
                /\ pc' = "load"]_vars

\* C27 witness: analyze returned with votes of both registered schools
\* stored, each school's sum differing from the total.
C27_Witness ==
    /\ pc = "analyzed"
    /\ DOMAIN schools = {"X", "Y"}
    /\ VotesOf(votes, "X") # <<>>
    /\ VotesOf(votes, "Y") # <<>>
    /\ \A s \in DOMAIN schools :
          school_sum(votes, schools, get_matrix_size(awards))[s]
              # total_sum(votes, get_matrix_size(awards))
====
